---- MODULE Spec2Model ----
(***************************************************************************)
(* The users REST controller (src/src/controllers/UsersController.ts) as a *)
(* state machine.  The state is the users table, the handlers suspended    *)
(* between their two awaited store queries, the response written by the    *)
(* latest step and the store query that step issued.  One action is one    *)
(* awaited store query together with the synchronous handler code that     *)
(* follows it up to the next await (or to the response).                   *)
(***************************************************************************)
EXTENDS Integers, Sequences, FiniteSets, Bags, TLC

VARIABLES users, inflight, resp, lastQuery

vars == <<users, inflight, resp, lastQuery>>

(***************************************************************************)
(* Bounds of the model.                                                    *)
(***************************************************************************)
\* handlers that may be suspended between their two queries at one time
MaxInFlight == 2

(***************************************************************************)
(* Data: the User record and the request inputs.                           *)
(***************************************************************************)
\* The five mutable columns of a User; "id" is the sixth.
Fields == {"name", "phone", "email", "age", "weight"}

\* Strings the code inspects character by character are sequences of
\* one-character strings.
EmailA == <<"a", "@", "b", ".", "c", "o", "m">>
EmailBad == <<"n", "o", "t", "-", "a", "n", "-", "e", "m", "a", "i", "l">>

\* Request bodies.  A body is a function from the keys it carries to their
\* values: a key outside DOMAIN body destructures to undefined.
BodyFull == [name |-> "ana", phone |-> "111", email |-> EmailA, age |-> 30, weight |-> 60]
BodyPartial == [name |-> "eve", email |-> EmailBad]
BodyEmpty == <<>>
Bodies == {BodyFull, BodyPartial, BodyEmpty}

\* randomBytes(4): the model draws the four bytes from these values.
ByteChoices == {<<0, 0, 0, 10>>, <<0, 0, 1, 171>>}

HexDigits == <<"0", "1", "2", "3", "4", "5", "6", "7", "8", "9", "a", "b", "c", "d", "e", "f">>

\* Buffer.toString('hex'): two lower-case hex digits per byte.
ToHex(bytes) ==
  LET Hex2(b) == <<HexDigits[(b \div 16) + 1], HexDigits[(b % 16) + 1]>>
  IN  Hex2(bytes[1]) \o Hex2(bytes[2]) \o Hex2(bytes[3]) \o Hex2(bytes[4])

\* The ids a request path may carry: the ones create can generate.
PathIds == {ToHex(b) : b \in ByteChoices}

\* String(total): the decimal digits of a non-negative integer.
RECURSIVE DecimalString(_)
DecimalString(n) ==
  IF n < 10 THEN <<HexDigits[n + 1]>>
  ELSE DecimalString(n \div 10) \o <<HexDigits[(n % 10) + 1]>>

(***************************************************************************)
(* validate of email-validator, on the characters the inputs use.          *)
(***************************************************************************)
Letters == {"a", "b", "c", "d", "e", "f", "g", "h", "i", "j", "k", "l", "m",
            "n", "o", "p", "q", "r", "s", "t", "u", "v", "w", "x", "y", "z"}
Alnum == Letters \cup {"0", "1", "2", "3", "4", "5", "6", "7", "8", "9"}
LocalChars == Alnum \cup {"-", "_", "+"}

\* positions of character c in s
Positions(s, c) == {i \in 1..Len(s) : s[i] = c}

\* ^L(\.?L)*$ : no leading, trailing or doubled dot
LocalOk(s) ==
  /\ Len(s) > 0 /\ Len(s) <= 64
  /\ \A i \in 1..Len(s) : s[i] \in LocalChars \cup {"."}
  /\ s[1] # "." /\ s[Len(s)] # "."
  /\ \A i \in 1..(Len(s) - 1) : ~(s[i] = "." /\ s[i + 1] = ".")

\* ^[a-z0-9](-*\.?[a-z0-9])*$ : a dot is followed at once by a letter or digit
HostOk(s) ==
  /\ Len(s) > 0
  /\ \A i \in 1..Len(s) : s[i] \in Alnum \cup {"-", "."}
  /\ s[1] \in Alnum /\ s[Len(s)] \in Alnum
  /\ \A i \in 1..(Len(s) - 1) : s[i] = "." => s[i + 1] \in Alnum

\* ^[a-z](-?[a-z0-9])+$ : at least two characters, a hyphen is followed by a
\* letter or digit
TldOk(s) ==
  /\ Len(s) >= 2 /\ Len(s) <= 63
  /\ s[1] \in Letters
  /\ \A i \in 2..Len(s) : s[i] \in Alnum \cup {"-"}
  /\ s[Len(s)] \in Alnum
  /\ \A i \in 1..(Len(s) - 1) : s[i] = "-" => s[i + 1] \in Alnum

DomainOk(s) ==
  /\ Positions(s, ".") # {}
  /\ LET d == CHOOSE i \in Positions(s, ".") : \A j \in Positions(s, ".") : j <= i
     IN  /\ HostOk(SubSeq(s, 1, d - 1))
         /\ TldOk(SubSeq(s, d + 1, Len(s)))

\* validate weakened to a presence check
validatePresence(email) == Len(email) > 0

\* validate(email); an undefined email reaches it as the empty sequence,
\* which it rejects like the empty string (!email).
validate(email) ==
  /\ Len(email) > 0 /\ Len(email) <= 254
  /\ Cardinality(Positions(email, "@")) = 1
  /\ LET at == CHOOSE i \in Positions(email, "@") : TRUE
     IN  /\ LocalOk(SubSeq(email, 1, at - 1))
         /\ DomainOk(SubSeq(email, at + 1, Len(email)))

\* const { email } = request.body
EmailOf(body) == IF "email" \in DOMAIN body THEN body["email"] ELSE <<>>

(***************************************************************************)
(* The store: the users table and the queries the handlers issue.          *)
(* A row is a function from "id" and the non-NULL columns to their values: *)
(* a column outside DOMAIN row holds NULL.                                 *)
(***************************************************************************)
\* db('users').where('id', id)
WhereId(table, id) == {r \in table : r["id"] = id}

\* The primary key on id: the insert of a row whose id is present is refused.
PrimaryKeyFree(table, id) == WhereId(table, id) = {}

\* new_user built without its weight
NewUserNoWeight(id, body) ==
  [f \in {"id"} \cup (DOMAIN body \ {"weight"}) |-> IF f = "id" THEN id ELSE body[f]]

\* new_user = { id, name, phone, email, age, weight }: undefined values are
\* inserted as NULL (useNullAsDefault).
NewUser(id, body) ==
  [f \in {"id"} \cup DOMAIN body |-> IF f = "id" THEN id ELSE body[f]]

\* .insert(new_user)
Insert(table, row) == table \cup {row}

\* an update that SETs the undefined keys to NULL
UpdateRowOverwrite(row, body) ==
  [f \in {"id"} \cup DOMAIN body |-> IF f = "id" THEN row["id"] ELSE body[f]]

\* an update that SETs the name alone
UpdateRowNameOnly(row, body) ==
  [f \in DOMAIN row \cup (DOMAIN body \cap {"name"}) |->
     IF f \in DOMAIN body /\ f = "name" THEN body[f] ELSE row[f]]

\* .update({ name, phone, email, age, weight }) on one row: the query builder
\* drops the keys whose value is undefined, the other columns are SET.
UpdateRow(row, body) ==
  [f \in DOMAIN row \cup DOMAIN body |-> IF f \in DOMAIN body THEN body[f] ELSE row[f]]

\* .where('id', id).update(...)
Update(table, id, body) ==
  {IF r["id"] = id THEN UpdateRow(r, body) ELSE r : r \in table}

\* a delete that lost its where clause
DeleteAll(table, id) == {}

\* .where('id', id).first().delete(): the DELETE statement carries the where
\* clause and no limit, so every row of that id goes
Delete(table, id) == table \ WhereId(table, id)

\* .count('* as total')
Count(table) == Cardinality(table)

(***************************************************************************)
(* Responses and the record of the query a step issued.                    *)
(***************************************************************************)
NoResp == [op |-> "none", status |-> 0]
NoQuery == [kind |-> "none", ok |-> TRUE]
NoHeader == <<>>

Query(kind, ok) == [kind |-> kind, ok |-> ok]

\* response.status(status).json(json), with the request it answers
Response(op, id, body, status, header, json) ==
  [op |-> op, id |-> id, body |-> body, status |-> status,
   xTotalCount |-> header, json |-> json]

\* A handler awaiting its second query; at most MaxInFlight are suspended.
CanSuspend == BagCardinality(inflight) < MaxInFlight
Suspend(c) == inflight (+) SetToBag({c})
Resume(c) == inflight (-) SetToBag({c})
Awaiting(op) == {c \in BagToSet(inflight) : c.op = op}

\* { message: `...` }: the kind of message and the value it interpolates
Message(kind, value) == [message |-> kind, value |-> value]

NoId == <<>>
NoBody == <<>>

Init ==
  /\ users = {}
  /\ inflight = EmptyBag
  /\ resp = NoResp
  /\ lastQuery = NoQuery

(***************************************************************************)
(* index: select('*'), then count('* as total').                           *)
(***************************************************************************)
\* the catch block of index
IndexError ==
  Response("index", NoId, NoBody, 500, NoHeader, Message("error-access-users", NoId))

\* X-Total-Count set in the 200 branch alone
IndexResponseHeaderOn200(rows, total) ==
  IF total = 0
    THEN Response("index", NoId, NoBody, 404, NoHeader, Message("no-users", NoId))
    ELSE Response("index", NoId, NoBody, 200, DecimalString(total), rows)

\* response.set('X-Total-Count', String(total)), then 404 or 200
IndexResponse(rows, total) ==
  IF total = 0
    THEN Response("index", NoId, NoBody, 404, DecimalString(total), Message("no-users", NoId))
    ELSE Response("index", NoId, NoBody, 200, DecimalString(total), rows)

\* const users = await db('users').select('*')
IndexSelect(ok) ==
  /\ lastQuery' = Query("select", ok)
  /\ users' = users
  /\ IF ok
       THEN /\ CanSuspend
            /\ inflight' = Suspend([op |-> "index", rows |-> users])
            /\ resp' = NoResp
       ELSE /\ inflight' = inflight
            /\ resp' = IndexError

\* const [ { total } ] = await db('users').count('* as total'), and the response
IndexCount(c, ok) ==
  /\ c \in Awaiting("index")
  /\ lastQuery' = Query("count", ok)
  /\ users' = users
  /\ inflight' = Resume(c)
  /\ resp' = IF ok THEN IndexResponse(c.rows, Count(users)) ELSE IndexError

(***************************************************************************)
(* show: where('id', id).select('*').first()                               *)
(***************************************************************************)
\* .first(): the row that matches, undefined when none does
Undefined == <<>>
First(found) == IF found = {} THEN Undefined ELSE CHOOSE r \in found : TRUE

\* an existence check that always passes
MissingNever(user) == FALSE

\* !user
Missing(user) == user = Undefined

ShowResponse(id, user) ==
  IF Missing(user)
    THEN Response("show", id, NoBody, 404, NoHeader, Message("not-found", id))
    ELSE Response("show", id, NoBody, 200, NoHeader, user)

ShowError(id) ==
  Response("show", id, NoBody, 500, NoHeader, Message("error-access-user", id))

Show(id, ok) ==
  /\ lastQuery' = Query("first", ok)
  /\ UNCHANGED <<users, inflight>>
  /\ resp' = IF ok THEN ShowResponse(id, First(WhereId(users, id))) ELSE ShowError(id)

(***************************************************************************)
(* create: validate(email), then insert(new_user)                          *)
(***************************************************************************)
CreateInvalid(body) ==
  Response("create", NoId, body, 400, NoHeader, Message("invalid-email", EmailOf(body)))

\* the insert not awaited: 201 whatever becomes of it
CreateResponseUnawaited(id, body, inserted) ==
  Response("create", NoId, body, 201, NoHeader, Message("created", id))

\* the try block answers 201 once the awaited insert has resolved, the catch
\* block 500 when it rejected
CreateResponse(id, body, inserted) ==
  IF inserted
    THEN Response("create", NoId, body, 201, NoHeader, Message("created", id))
    ELSE Response("create", NoId, body, 500, NoHeader, Message("error-insert", NoId))

\* bytes are the outcome of randomBytes(4); ok is false when the store fails
\* for a reason of its own (the primary key refuses the insert besides).
Create(body, bytes, ok) ==
  /\ inflight' = inflight
  /\ IF ~validate(EmailOf(body))
       THEN /\ ok
            /\ lastQuery' = NoQuery
            /\ users' = users
            /\ resp' = CreateInvalid(body)
       ELSE LET id == ToHex(bytes)
                inserted == ok /\ PrimaryKeyFree(users, id)
            IN  /\ lastQuery' = Query("insert", inserted)
                /\ users' = IF inserted THEN Insert(users, NewUser(id, body)) ELSE users
                /\ resp' = CreateResponse(id, body, inserted)

(***************************************************************************)
(* change: where('id', id).select('*').first(), then update({...})         *)
(***************************************************************************)
ChangeNotFound(id, body) ==
  Response("change", id, body, 404, NoHeader, Message("not-found-change", id))

ChangeAccessError(id, body) ==
  Response("change", id, body, 500, NoHeader, Message("error-access-user", id))

\* the update not awaited: 200 whatever becomes of it
ChangeResponseUnawaited(id, body, updated) ==
  Response("change", id, body, 200, NoHeader, Message("updated", id))

\* the inner try block answers 200 once the awaited update has resolved, the
\* inner catch block 500 when it rejected
ChangeResponse(id, body, updated) ==
  IF updated
    THEN Response("change", id, body, 200, NoHeader, Message("updated", id))
    ELSE Response("change", id, body, 500, NoHeader, Message("could-not-update", id))

\* An update with no defined value is rejected by the query builder
\* ("Empty .update() call detected").
UpdateAccepted(body) == DOMAIN body # {}

ChangeFirst(id, body, ok) ==
  /\ lastQuery' = Query("first", ok)
  /\ users' = users
  /\ IF ~ok
       THEN inflight' = inflight /\ resp' = ChangeAccessError(id, body)
       ELSE IF Missing(First(WhereId(users, id)))
         THEN inflight' = inflight /\ resp' = ChangeNotFound(id, body)
         ELSE /\ CanSuspend
              /\ inflight' = Suspend([op |-> "change", id |-> id, body |-> body])
              /\ resp' = NoResp

ChangeUpdate(c, ok) ==
  /\ c \in Awaiting("change")
  /\ LET updated == ok /\ UpdateAccepted(c.body)
     IN  /\ lastQuery' = Query("update", updated)
         /\ users' = IF updated THEN Update(users, c.id, c.body) ELSE users
         /\ resp' = ChangeResponse(c.id, c.body, updated)
  /\ inflight' = Resume(c)

(***************************************************************************)
(* remove: where('id', id).select('*').first(), then first().delete()      *)
(***************************************************************************)
RemoveNotFound(id) ==
  Response("remove", id, NoBody, 404, NoHeader, Message("not-found-delete", id))

RemoveAccessError(id) ==
  Response("remove", id, NoBody, 500, NoHeader, Message("error-access-user", id))

RemoveResponse(id, deleted) ==
  IF deleted
    THEN Response("remove", id, NoBody, 200, NoHeader, Message("deleted", id))
    ELSE Response("remove", id, NoBody, 500, NoHeader, Message("could-not-delete", id))

RemoveFirst(id, ok) ==
  /\ lastQuery' = Query("first", ok)
  /\ users' = users
  /\ IF ~ok
       THEN inflight' = inflight /\ resp' = RemoveAccessError(id)
       ELSE IF Missing(First(WhereId(users, id)))
         THEN inflight' = inflight /\ resp' = RemoveNotFound(id)
         ELSE /\ CanSuspend
              /\ inflight' = Suspend([op |-> "remove", id |-> id])
              /\ resp' = NoResp

RemoveDelete(c, ok) ==
  /\ c \in Awaiting("remove")
  /\ lastQuery' = Query("delete", ok)
  /\ users' = IF ok THEN Delete(users, c.id) ELSE users
  /\ resp' = RemoveResponse(c.id, ok)
  /\ inflight' = Resume(c)

(***************************************************************************)
(* The server: any request may arrive, any suspended handler may resume,   *)
(* and any store query may fail.                                           *)
(***************************************************************************)
Next ==
  \/ \E ok \in BOOLEAN : IndexSelect(ok)
  \/ \E c \in Awaiting("index"), ok \in BOOLEAN : IndexCount(c, ok)
  \/ \E id \in PathIds, ok \in BOOLEAN : Show(id, ok)
  \/ \E body \in Bodies, bytes \in ByteChoices, ok \in BOOLEAN : Create(body, bytes, ok)
  \/ \E id \in PathIds, body \in Bodies, ok \in BOOLEAN : ChangeFirst(id, body, ok)
  \/ \E c \in Awaiting("change"), ok \in BOOLEAN : ChangeUpdate(c, ok)
  \/ \E id \in PathIds, ok \in BOOLEAN : RemoveFirst(id, ok)
  \/ \E c \in Awaiting("remove"), ok \in BOOLEAN : RemoveDelete(c, ok)

Spec == Init /\ [][Next]_vars

TypeOK ==
  /\ \A r \in users : r["id"] \in PathIds /\ DOMAIN r \subseteq {"id"} \cup Fields
  /\ BagCardinality(inflight) <= MaxInFlight
  /\ resp.op \in {"none", "index", "show", "create", "change", "remove"}

(***************************************************************************)
(* Properties.  resp and lastQuery always describe the latest step, so a   *)
(* formula over resp' and lastQuery' speaks about the step being taken and *)
(* one over resp and resp' about two requests answered one after another.  *)
(***************************************************************************)
IdsOf(table) == {r["id"] : r \in table}

\* the value of key f of a body or of column f of a row; <<>> for an
\* undefined key or a NULL column
Val(rec, f) == IF f \in DOMAIN rec THEN <<rec[f]>> ELSE <<>>

\* the emails of the inputs that are not in a valid format, written out:
\* "not-an-email" and the undefined email of a body without one
MalformedEmails == {EmailBad, <<>>}

\* C1: every 200 of index carries as many objects as X-Total-Count says and
\* every 404 of index carries X-Total-Count: 0 while the table is empty.
C1_ListBodyMatchesCount ==
  resp.op = "index" /\ lastQuery.ok =>
    /\ resp.status \in {200, 404}
    /\ resp.status = 404 =>
         resp.xTotalCount = <<"0">> /\ users = {}
    /\ resp.status = 200 =>
         resp.xTotalCount = DecimalString(Cardinality(resp.json))

\* C2: a create whose email is malformed is answered 400, issues no
\* query and leaves the users table as it was.
C2_InvalidEmailNoInsert ==
  [][resp'.op = "create" /\ EmailOf(resp'.body) \in MalformedEmails =>
       /\ resp'.status = 400
       /\ lastQuery'.kind = "none"
       /\ users' = users]_vars

C2_Witness ==
  /\ resp.op = "create" /\ resp.status = 400
  /\ EmailOf(resp.body) = EmailBad
  /\ users # {}

\* C9 as claimed: every response of index carries X-Total-Count.
C9_HeaderOnEveryResponse ==
  resp.op = "index" => resp.xTotalCount # NoHeader

\* C9 amended: index sets X-Total-Count, to the total the count query
\* returned, on its 200 and 404 responses and on no 500 response.
C9_HeaderOnlyWithoutFailure ==
  resp.op = "index" =>
    /\ resp.status \in {200, 404} => resp.xTotalCount = DecimalString(Count(users))
    /\ resp.status = 500 <=> resp.xTotalCount = NoHeader
    /\ resp.status = 500 <=> ~lastQuery.ok

C9_Witness ==
  /\ resp.op = "index" /\ resp.status = 500
  /\ lastQuery = Query("count", FALSE)
  /\ users # {}

\* C3: a create with a valid email whose insert succeeds is answered 201
\* with the generated id and adds exactly one row, the one with that id; a
\* show of that id answered next returns 200 with the five submitted values.
C3_CreateThenShow ==
  /\ [][resp'.op = "create" /\ EmailOf(resp'.body) = EmailA /\ lastQuery'.ok =>
          /\ resp'.status = 201
          /\ resp'.json.message = "created"
          /\ resp'.json.value \notin IdsOf(users)
          /\ users \subseteq users'
          /\ Cardinality(users') = Cardinality(users) + 1
          /\ \A r \in users' \ users : r["id"] = resp'.json.value]_vars
  /\ [][/\ resp.op = "create" /\ resp.status = 201
        /\ resp'.op = "show" /\ resp'.id = resp.json.value /\ lastQuery'.ok
        => /\ resp'.status = 200
           /\ resp'.json["id"] = resp.json.value
           /\ \A f \in Fields : Val(resp'.json, f) = Val(resp.body, f)]_vars

C3_Witness ==
  /\ resp.op = "show" /\ resp.status = 200
  /\ \A f \in Fields : Val(resp.json, f) = Val(BodyFull, f)
  /\ Cardinality(users) = 2

\* C4 as claimed: a show answered 200 right after a change answered 200 for
\* the same id returns the five values of the change's body, an omitted
\* one as no value, under the same id.
C4_FullOverwrite ==
  [][/\ resp.op = "change" /\ resp.status = 200
     /\ resp'.op = "show" /\ resp'.id = resp.id /\ resp'.status = 200
     => /\ resp'.json["id"] = resp.id
        /\ \A f \in Fields : Val(resp'.json, f) = Val(resp.body, f)]_vars

\* C4 amended: an update that succeeds is answered 200 and gives the row of
\* the id the body's value in every column the body carries, leaving its
\* other columns, its id and the other rows as they were; a show answered
\* 200 right after it returns the body's value for every key of the body.
C4_UpdateMerges ==
  /\ [][lastQuery'.kind = "update" /\ lastQuery'.ok =>
          /\ resp'.op = "change" /\ resp'.status = 200
          /\ IdsOf(users') = IdsOf(users)
          /\ \A r \in users : \E r2 \in users' :
                /\ r2["id"] = r["id"]
                /\ \A f \in Fields :
                      Val(r2, f) = IF r["id"] = resp'.id /\ f \in DOMAIN resp'.body
                                     THEN <<resp'.body[f]>> ELSE Val(r, f)]_vars
  /\ [][/\ resp.op = "change" /\ resp.status = 200
        /\ resp'.op = "show" /\ resp'.id = resp.id /\ resp'.status = 200
        => /\ resp'.json["id"] = resp.id
           /\ \A f \in DOMAIN resp.body : Val(resp'.json, f) = Val(resp.body, f)]_vars

C4_Witness ==
  /\ resp.op = "show" /\ resp.status = 200
  /\ Val(resp.json, "name") = Val(BodyPartial, "name")
  /\ Val(resp.json, "phone") = Val(BodyFull, "phone")

\* C5: a delete query that succeeds is answered 200 and removes the rows of
\* that id and no other; a remove of an id that is in the table is not
\* answered 404; a show of the id answered right after the 200 answers 404.
C5_DeleteThenShow ==
  /\ [][lastQuery'.kind = "delete" /\ lastQuery'.ok =>
          /\ resp'.op = "remove" /\ resp'.status = 200
          /\ users' = {r \in users : r["id"] # resp'.id}]_vars
  /\ [][resp'.op = "remove" /\ resp'.status = 404 => resp'.id \notin IdsOf(users)]_vars
  /\ [][/\ resp.op = "remove" /\ resp.status = 200
        /\ resp'.op = "show" /\ resp'.id = resp.id /\ lastQuery'.ok
        => resp'.status = 404]_vars

C5_Witness ==
  /\ resp.op = "remove" /\ resp.status = 200
  /\ users # {}

\* C6: a change or remove whose existence check finds no row is answered
\* 404 at once, with the table and the suspended handlers as they were; 404
\* is answered only then; only a handler whose check found its id goes on
\* to the update or delete query.
C6_MissingIdNoWrite ==
  /\ [][resp'.op \in {"change", "remove"} /\ lastQuery' = Query("first", TRUE) =>
          /\ resp'.status = 404
          /\ resp'.id \notin IdsOf(users)]_vars
  /\ [][resp'.op \in {"change", "remove"} /\ resp'.status = 404 =>
          /\ lastQuery' = Query("first", TRUE)
          /\ resp'.id \notin IdsOf(users)
          /\ users' = users
          /\ inflight' = inflight]_vars
  /\ [][\A c \in BagToSet(inflight') :
          c.op \in {"change", "remove"} /\ CopiesIn(c, inflight') > CopiesIn(c, inflight)
          => c.id \in IdsOf(users) /\ users' = users]_vars
  /\ [][lastQuery'.kind \in {"update", "delete"} =>
          \E c \in Awaiting("change") \cup Awaiting("remove") :
             /\ inflight' = Resume(c)
             /\ resp'.id = c.id]_vars

C6_Witness ==
  /\ resp.op = "change" /\ resp.status = 404
  /\ resp.body = BodyFull
  /\ users # {}

\* C7: no two rows share an id; the set of ids in the table changes only by
\* an insert adding one id beside the rows present or a delete removing
\* one, so a row keeps its id; a create answered 201 returns an id that was
\* not in the table.
C7_IdsUniqueAndStable ==
  /\ [](\A r1, r2 \in users : r1["id"] = r2["id"] => r1 = r2)
  /\ [][IdsOf(users') # IdsOf(users) =>
          \/ /\ lastQuery' = Query("insert", TRUE)
             /\ users \subseteq users'
             /\ Cardinality(IdsOf(users')) = Cardinality(IdsOf(users)) + 1
          \/ /\ lastQuery' = Query("delete", TRUE)
             /\ IdsOf(users') = IdsOf(users) \ {resp'.id}]_vars
  /\ [][resp'.op = "create" /\ resp'.status = 201 =>
          /\ resp'.json.value \notin IdsOf(users)
          /\ IdsOf(users') = IdsOf(users) \cup {resp'.json.value}]_vars

C7_Witness ==
  /\ resp.op = "create" /\ resp.status = 201
  /\ Cardinality(IdsOf(users)) = 2

\* C8: a step whose store query fails answers 500, leaves the table as it
\* was and ends its request (a handler resumed for its second query is no
\* longer suspended, none is newly suspended); 200, 201 and 404 are answered
\* only by a step whose query succeeded.
C8_FailureIs500 ==
  /\ [][~lastQuery'.ok =>
          /\ resp'.status = 500
          /\ users' = users
          /\ IF lastQuery'.kind \in {"count", "update", "delete"}
               THEN \E c \in BagToSet(inflight) : inflight' = Resume(c)
               ELSE inflight' = inflight]_vars
  /\ [](resp.status \in {200, 201, 404} => lastQuery.ok)

C8_Witness ==
  /\ resp.op = "change" /\ resp.status = 500
  /\ lastQuery = Query("update", FALSE)
  /\ resp.body = BodyFull
  /\ users # {}

\* C10 as claimed: when two changes of one id are both past their
\* existence check and the update of one succeeds, it is answered 200 and
\* the row holds that body's five values, an omitted one as no value.
C10_LastBodyStoredWhole ==
  [][\A c \in Awaiting("change") :
       /\ lastQuery' = Query("update", TRUE)
       /\ inflight' = Resume(c)
       /\ \E d \in Awaiting("change") : d.id = c.id /\ CopiesIn(d, inflight') > 0
       => /\ resp'.status = 200
          /\ \A r2 \in WhereId(users', c.id) :
                \A f \in Fields : Val(r2, f) = Val(c.body, f)]_vars

\* C10 amended: in that case the update is answered 200 and the row holds
\* that body's value in every column the body carries and its earlier
\* value in the others, so it equals the body when the body carries all
\* five.
C10_LastWriteWins ==
  [][\A c \in Awaiting("change") :
       /\ lastQuery' = Query("update", TRUE)
       /\ inflight' = Resume(c)
       /\ \E d \in Awaiting("change") : d.id = c.id /\ CopiesIn(d, inflight') > 0
       => /\ resp'.status = 200 /\ resp'.id = c.id /\ resp'.body = c.body
          /\ Cardinality(WhereId(users', c.id)) = Cardinality(WhereId(users, c.id))
          /\ \A r \in WhereId(users, c.id) : \A r2 \in WhereId(users', c.id) :
                \A f \in Fields :
                   Val(r2, f) = IF f \in DOMAIN c.body THEN <<c.body[f]>> ELSE Val(r, f)
          /\ DOMAIN c.body = Fields =>
                \A r2 \in WhereId(users', c.id) :
                   \A f \in Fields : Val(r2, f) = Val(c.body, f)]_vars

C10_Witness ==
  /\ resp.op = "change" /\ resp.status = 200
  /\ resp.id \in IdsOf(users)
  /\ \E d \in Awaiting("change") : d.id = resp.id /\ d.body # resp.body

====
